---- MODULE Spec2Model ----
(***************************************************************************)
(* Report-structuring pipeline of the competitor-analysis application:     *)
(* the section classifier (format_report_for_display), the metrics         *)
(* extractor (extract_key_metrics) and the markup-to-document renderer     *)
(* (PDFReportGenerator) of src/utils.py.                                   *)
(*                                                                         *)
(* Text is modelled by TLA+ strings, character by character: a character   *)
(* is a string of length one, a report is one string with "\n" between     *)
(* its lines, exactly as the Python code receives it.                      *)
(***************************************************************************)
EXTENDS Integers, Sequences, FiniteSets, TLC

VARIABLES
    pc,               \* position of the running function
    report_content,   \* the argument: the full report text
    lines,            \* report_content.split('\n')
    idx,              \* number of lines the current loop has consumed
    current_section,  \* format_report_for_display: None or a section key
    current_content,  \* format_report_for_display: lines of the open block
    sections,         \* format_report_for_display: the result map
    metrics,          \* extract_key_metrics: the result record
    in_findings,      \* extract_key_metrics: inside the key findings block
    in_opportunities, \* extract_key_metrics: inside the opportunities block
    elements,         \* _parse_report_content: the flowables built so far
    clean_arg,        \* _clean_markdown: the text the caller passes
    text,             \* _clean_markdown: the text being rewritten
    exc,              \* the exception raised inside the running try block, or None
    company_name,     \* PDFReportGenerator.company_name / generate_filename argument
    industry,         \* PDFReportGenerator.industry
    today,            \* the date datetime.now() gives
    pdf_elements,     \* generate_pdf: the list "elements"
    buffer,           \* PDFReportGenerator.buffer: the bytes the BytesIO holds
    calls,            \* generate_pdf calls made on the PDFReportGenerator instance
    extension,        \* generate_filename argument
    clean_name,       \* generate_filename: the name being sanitised
    filename,         \* generate_filename: the result
    session_state,    \* st.session_state: the values kept between script runs
    start_disabled,   \* the disabled attribute of the Start Analysis button as last rendered
    run_args,         \* the arguments of the running run_competitor_analysis
    config_valid,     \* what config.validate_config() answers in this session
    form,             \* the values of the sidebar widgets
    clicked,          \* the button whose click started the current script run
    agents,           \* run_competitor_analysis: the dict of agents
    tasks,            \* run_competitor_analysis: the list of tasks
    crew,             \* run_competitor_analysis: the Crew
    executed,         \* crew.kickoff(): the tasks executed so far
    at_entry          \* the results the session held when the run was entered

vars == <<pc, report_content, lines, idx, current_section, current_content,
          sections, metrics, in_findings, in_opportunities, elements, clean_arg, text,
          exc, company_name, industry, today, pdf_elements, buffer, calls,
          extension, clean_name, filename, session_state, start_disabled, run_args,
          config_valid, form, clicked, agents, tasks, crew, executed, at_entry>>

formatVars == <<current_section, current_content, sections>>
metricsVars == <<metrics, in_findings, in_opportunities>>
renderVars == <<elements, clean_arg, text>>
pdfVars == <<company_name, industry, today, pdf_elements, buffer, calls>>
filenameVars == <<extension, clean_name, filename>>
pipelineVars == <<agents, tasks, crew, executed, at_entry>>
appVars == <<session_state, start_disabled, run_args, config_valid, form, clicked,
             pipelineVars>>
otherVars == <<exc, pdfVars, filenameVars, appVars>>

(***************************************************************************)
(* Python string primitives.                                               *)
(***************************************************************************)
\* s[i] (1-based)
Char(s, i) == SubSeq(s, i, i)

\* s[n:]
DropFirst(s, n) == SubSeq(s, n + 1, Len(s))

\* s.startswith(p)
StartsWith(s, p) == Len(s) >= Len(p) /\ SubSeq(s, 1, Len(p)) = p

\* k in s
Contains(s, k) ==
    \E i \in 1..(Len(s) - Len(k) + 1) :
        Char(s, i) = Char(k, 1) /\ SubSeq(s, i, i + Len(k) - 1) = k

\* characters str.strip() removes
IsSpace(c) == c \in {" ", "\t", "\r"}

RECURSIVE LStrip(_)
LStrip(s) == IF Len(s) > 0 /\ IsSpace(Char(s, 1)) THEN LStrip(DropFirst(s, 1)) ELSE s

RECURSIVE RStrip(_)
RStrip(s) ==
    IF Len(s) > 0 /\ IsSpace(Char(s, Len(s))) THEN RStrip(SubSeq(s, 1, Len(s) - 1)) ELSE s

\* s.strip()
Strip(s) == LStrip(RStrip(s))

UpperCaseLetters == "ABCDEFGHIJKLMNOPQRSTUVWXYZ"
LowerCaseLetters == "abcdefghijklmnopqrstuvwxyz"

LowerTable ==
    [c \in {Char(UpperCaseLetters, i) : i \in 1..Len(UpperCaseLetters)} |->
        Char(LowerCaseLetters,
             CHOOSE i \in 1..Len(UpperCaseLetters) : Char(UpperCaseLetters, i) = c)]

LowerChar(c) == IF c \in DOMAIN LowerTable THEN LowerTable[c] ELSE c

\* s.lower()
RECURSIVE Lower(_)
Lower(s) == IF Len(s) = 0 THEN s ELSE LowerChar(Char(s, 1)) \o Lower(DropFirst(s, 1))

\* s.split('\n')
RECURSIVE Split(_)
Split(s) ==
    IF \E i \in 1..Len(s) : Char(s, i) = "\n"
    THEN LET i == CHOOSE j \in 1..Len(s) :
                      Char(s, j) = "\n" /\ \A k \in 1..(j - 1) : Char(s, k) # "\n"
         IN  <<SubSeq(s, 1, i - 1)>> \o Split(DropFirst(s, i))
    ELSE <<s>>

\* '\n'.join(ls)
RECURSIVE Join(_)
Join(ls) ==
    IF Len(ls) = 0 THEN ""
    ELSE IF Len(ls) = 1 THEN ls[1]
    ELSE ls[1] \o "\n" \o Join(Tail(ls))

(***************************************************************************)
(* Report texts the functions are applied to: every text of a bounded      *)
(* number of lines over a vocabulary of lines, and reports laid out as     *)
(* the report task's template (src/tasks.py) asks.                         *)
(***************************************************************************)
MaxFormatLines == 4

RECURSIVE TextsOfLength(_, _)
TextsOfLength(vocab, n) ==
    IF n = 1 THEN vocab
    ELSE {l \o "\n" \o t : l \in vocab, t \in TextsOfLength(vocab, n - 1)}

TextsUpTo(vocab, n) == UNION {TextsOfLength(vocab, k) : k \in 1..n}

None == "None"

\* extract_key_metrics, lines 339-344: the metrics a call starts from
DefaultMetrics ==
    [num_competitors |-> 0, key_findings |-> <<>>, threat_level |-> "Medium",
     opportunities |-> 0]

\* no exception is in flight
NoException == exc = None

\* no PDFReportGenerator instance exists
PdfIdle ==
    /\ industry = ""
    /\ today = None
    /\ pdf_elements = <<>>
    /\ buffer = <<>>
    /\ calls = 0

\* generate_filename is not running
FilenameIdle ==
    /\ extension = ""
    /\ clean_name = ""
    /\ filename = ""

\* initialize_session_state (src/app.py, lines 32-43)
InitialSessionState ==
    [analysis_complete |-> FALSE, report_content |-> None, company_name |-> "",
     industry |-> "", analysis_running |-> FALSE]

\* no call of run_competitor_analysis is in progress
NoArgs == [company_name |-> "", industry |-> "", num_competitors |-> 0, analysis_depth |-> ""]

\* the sidebar widgets before the user touches them (src/app.py, lines
\* 80-110): empty text input, first options, config.DEFAULT_COMPETITORS
InitialForm ==
    [company_name |-> "", industry |-> "Technology / Software", num_competitors |-> 3,
     analysis_depth |-> "quick"]

\* an agent, a task, a crew that is not created
NoAgent == [role |-> "", goal |-> "", tools |-> 0]
NoAgents == [k \in {"research", "analysis", "report"} |-> NoAgent]
NoCrew == [agents |-> <<>>, tasks |-> <<>>, process |-> ""]

\* the results of a session without a run
NoResults == [analysis_complete |-> FALSE, report_content |-> None]

\* no pipeline object exists
PipelineIdle ==
    /\ agents = NoAgents
    /\ tasks = <<>>
    /\ crew = NoCrew
    /\ executed = <<>>
    /\ at_entry = NoResults

\* the application is not part of the run
AppIdle ==
    /\ session_state = InitialSessionState
    /\ start_disabled = FALSE
    /\ run_args = NoArgs
    /\ config_valid = TRUE
    /\ form = InitialForm
    /\ clicked = "none"
    /\ PipelineIdle

(***************************************************************************)
(* format_report_for_display                                               *)
(***************************************************************************)

SectionKeys == {"overview", "detailed_analysis", "competitor_matrix", "recommendations"}

\* the last test read as "('recommendation' or 'strategic') in the line"
HeaderTargetStrategic(line) ==
    LET line_lower == Strip(Lower(line)) IN
    IF Contains(line_lower, "executive summary") \/ Contains(line_lower, "key findings")
    THEN "overview"
    ELSE IF Contains(line_lower, "detailed competitor analysis")
            \/ Contains(line_lower, "swot")
    THEN "detailed_analysis"
    ELSE IF Contains(line_lower, "comparison matrix")
            \/ Contains(line_lower, "competitive comparison")
    THEN "competitor_matrix"
    ELSE IF Contains(line_lower, "recommendation") \/ Contains(line_lower, "strategic")
    THEN "recommendations"
    ELSE None

\* the chain with the recommendations test moved to the front
HeaderTargetRecommendationFirst(line) ==
    LET line_lower == Strip(Lower(line)) IN
    IF Contains(line_lower, "recommendation")
    THEN "recommendations"
    ELSE IF Contains(line_lower, "executive summary") \/ Contains(line_lower, "key findings")
    THEN "overview"
    ELSE IF Contains(line_lower, "detailed competitor analysis")
            \/ Contains(line_lower, "swot")
    THEN "detailed_analysis"
    ELSE IF Contains(line_lower, "comparison matrix")
            \/ Contains(line_lower, "competitive comparison")
    THEN "competitor_matrix"
    ELSE None

\* the if/elif chain of the loop body: the section a line opens, or None
HeaderTarget(line) ==
    LET line_lower == Strip(Lower(line)) IN
    IF Contains(line_lower, "executive summary") \/ Contains(line_lower, "key findings")
    THEN "overview"
    ELSE IF Contains(line_lower, "detailed competitor analysis")
            \/ Contains(line_lower, "swot")
    THEN "detailed_analysis"
    ELSE IF Contains(line_lower, "comparison matrix")
            \/ Contains(line_lower, "competitive comparison")
    THEN "competitor_matrix"
    ELSE IF Contains(line_lower, "recommendation")
            \/ (Contains(line_lower, "strategic") /\ Contains(line_lower, "recommendation"))
    THEN "recommendations"
    ELSE None

\* d[key] = value on a dict: the key is added when d does not have it
DictSet(d, key, value) ==
    [k \in DOMAIN d \cup {key} |-> IF k = key THEN value ELSE d[k]]

\* sections[current_section] = '\n'.join(current_content), when a section is open
Flush(secs, cur, content) ==
    IF cur # None THEN DictSet(secs, cur, Join(content)) ELSE secs

\* "if not any(sections.values()): sections['overview'] = report_content"
Fallback(secs, content) ==
    IF \A k \in DOMAIN secs : secs[k] = "" THEN DictSet(secs, "overview", content) ELSE secs

FormatVocabulary ==
    { "## EXECUTIVE SUMMARY", "Key Findings", "  swot analysis",
      "## COMPETITIVE COMPARISON", "## Strategic Recommendations",
      "strategic plan", "" }

\* a report with one header per section, in the order of the tabs
TemplateReport ==
    Join(<< "# REPORT: Acme", "## EXECUTIVE SUMMARY", "Acme leads.", "",
            "## DETAILED COMPETITOR ANALYSIS", "### Globex", "- strong",
            "## Comparison Matrix", "| a | b |",
            "## STRATEGIC RECOMMENDATIONS", "1. Invest", "## CONCLUSION" >>)

\* the headings of the report task's expected output (src/tasks.py, 239-292)
TaskReport ==
    Join(<< "# COMPETITOR ANALYSIS REPORT: Acme", "## EXECUTIVE SUMMARY",
            "Acme leads.", "## KEY FINDINGS", "1. Growth", "2. Churn",
            "## DETAILED COMPETITOR ANALYSIS", "### Globex",
            "## COMPETITIVE COMPARISON MATRIX", "## MARKET OPPORTUNITIES",
            "1. Asia", "## STRATEGIC RECOMMENDATIONS", "1. Invest" >>)

\* lines that hold the keywords of two rules
TwoKeywordTexts ==
    { "SWOT and key findings", "Comparison matrix of SWOT results",
      "Recommendations: competitive comparison", "Executive summary of recommendations" }

FormatTexts ==
    TextsUpTo(FormatVocabulary, MaxFormatLines)
        \cup {TemplateReport, TaskReport} \cup TwoKeywordTexts

FormatInit ==
    /\ report_content \in FormatTexts
    /\ pc = "format_entry"
    /\ lines = <<>>
    /\ idx = 0
    /\ current_section = None
    /\ current_content = <<>>
    /\ sections = [k \in SectionKeys |-> ""]
    /\ metrics = DefaultMetrics
    /\ in_findings = FALSE
    /\ in_opportunities = FALSE
    /\ elements = <<>>
    /\ clean_arg = ""
    /\ text = ""
    /\ NoException
    /\ company_name = ""
    /\ PdfIdle
    /\ FilenameIdle
    /\ AppIdle

\* a start with the overview section already open
FormatBeginInOverview ==
    /\ pc = "format_entry"
    /\ sections' = [k \in SectionKeys |-> ""]
    /\ current_section' = "overview"
    /\ current_content' = <<>>
    /\ lines' = Split(report_content)
    /\ idx' = 0
    /\ pc' = "format_loop"
    /\ UNCHANGED <<otherVars, report_content, metricsVars, renderVars>>

\* lines 268-280: the result map, the scanner state, the split
FormatBegin ==
    /\ pc = "format_entry"
    /\ sections' = [k \in SectionKeys |-> ""]
    /\ current_section' = None
    /\ current_content' = <<>>
    /\ lines' = Split(report_content)
    /\ idx' = 0
    /\ pc' = "format_loop"
    /\ UNCHANGED <<otherVars, report_content, metricsVars, renderVars>>

\* an iteration that opens the new block without storing the one it closes
FormatLineNoFlush ==
    /\ pc = "format_loop"
    /\ idx < Len(lines)
    /\ LET line == lines[idx + 1]
           target == HeaderTarget(line)
       IN  IF target # None
           THEN /\ current_section' = target
                /\ current_content' = <<line>>
                /\ UNCHANGED sections
           ELSE /\ current_content' =
                        IF current_section # None
                        THEN Append(current_content, line)
                        ELSE current_content
                /\ UNCHANGED <<sections, current_section>>
    /\ idx' = idx + 1
    /\ UNCHANGED <<otherVars, pc, report_content, lines, metricsVars, renderVars>>

\* one iteration of "for line in lines"
FormatLine ==
    /\ pc = "format_loop"
    /\ idx < Len(lines)
    /\ LET line == lines[idx + 1]
           target == HeaderTarget(line)
       IN  IF target # None
           THEN /\ sections' = Flush(sections, current_section, current_content)
                /\ current_section' = target
                /\ current_content' = <<line>>
           ELSE /\ current_content' =
                        IF current_section # None
                        THEN Append(current_content, line)
                        ELSE current_content
                /\ UNCHANGED <<sections, current_section>>
    /\ idx' = idx + 1
    /\ UNCHANGED <<otherVars, pc, report_content, lines, metricsVars, renderVars>>

\* after the loop: the final flush and the fallback; return sections
FormatFinish ==
    /\ pc = "format_loop"
    /\ idx = Len(lines)
    /\ sections' = Fallback(Flush(sections, current_section, current_content),
                            report_content)
    /\ pc' = "format_done"
    /\ UNCHANGED <<otherVars, report_content, lines, idx, current_section, current_content,
                   metricsVars, renderVars>>

FormatNext == FormatBegin \/ FormatLine \/ FormatFinish

SpecFormat == FormatInit /\ [][FormatNext]_vars

(***************************************************************************)
(* Claims about format_report_for_display                                  *)
(***************************************************************************)
RecognisedKeywords ==
    { "executive summary", "key findings", "detailed competitor analysis", "swot",
      "comparison matrix", "competitive comparison", "recommendation" }

HasKeyword(line) == \E k \in RecognisedKeywords : Contains(Lower(line), k)

EmptySections == [k \in SectionKeys |-> ""]

\* C1: when no line of the report contains a recognised section keyword, the
\* returned map has overview equal to the whole input text and the three
\* other sections empty.
C1_NoKeywordAllInOverview ==
    (pc = "format_done" /\ \A i \in 1..Len(lines) : ~HasKeyword(lines[i]))
        => sections = [EmptySections EXCEPT !["overview"] = report_content]

C1_Witness ==
    /\ pc = "format_done"
    /\ Len(lines) = 3
    /\ \A i \in 1..Len(lines) : ~HasKeyword(lines[i]) /\ lines[i] # ""
    /\ sections["overview"] = report_content

\* indices of the lines the scanner takes for section headers
HeaderIndices == {i \in 1..Len(lines) : HeaderTarget(lines[i]) # None}

SectionOrder == <<"overview", "detailed_analysis", "competitor_matrix", "recommendations">>

\* one header per section, in the order of SectionOrder
FourHeadersInOrder ==
    /\ Cardinality(HeaderIndices) = 4
    /\ \A h \in HeaderIndices :
           HeaderTarget(lines[h]) = SectionOrder[Cardinality({j \in HeaderIndices : j <= h})]

\* index of the first header after line h, or one past the last line
NextHeader(h) ==
    IF \E j \in HeaderIndices : j > h
    THEN CHOOSE j \in HeaderIndices : j > h /\ \A k \in HeaderIndices : k > h => j <= k
    ELSE Len(lines) + 1

\* C2: when the header lines are one per section in the order overview,
\* detailed_analysis, competitor_matrix, recommendations, every section value
\* is the lines from its header (inclusive) to the next header (exclusive),
\* joined by newlines.
C2_FourSectionsExactBlocks ==
    (pc = "format_done" /\ FourHeadersInOrder)
        => \A h \in HeaderIndices :
               sections[HeaderTarget(lines[h])] = Join(SubSeq(lines, h, NextHeader(h) - 1))

C2_Witness ==
    /\ pc = "format_done"
    /\ FourHeadersInOrder
    /\ \E h \in HeaderIndices : NextHeader(h) > h + 1
    /\ \E h \in HeaderIndices : h > 1
    /\ \A k \in SectionKeys : sections[k] # ""

\* the header that governs line i: the last header at or before it
LastHeader(i) ==
    CHOOSE j \in HeaderIndices : j <= i /\ \A k \in HeaderIndices : k <= i => k <= j

\* C3: every line at or after the first header appears in the returned value
\* of the section that was current when the line was scanned, also when
\* several headers map to the same section.
C3_EveryScannedLineKept ==
    pc = "format_done"
        => \A i \in 1..Len(lines) :
               (\E j \in HeaderIndices : j <= i)
                   => LET kept == Split(sections[HeaderTarget(lines[LastHeader(i)])])
                      IN  \E m \in 1..Len(kept) : kept[m] = lines[i]

(***************************************************************************)
(* extract_key_metrics                                                     *)
(***************************************************************************)
MaxMetricsLines == 3

\* s.startswith((p1, p2, ...))
StartsWithAny(s, prefixes) == \E p \in prefixes : StartsWith(s, p)

\* a competitor test that forgets the excluded words
IsCompetitorHeadingNoExclusion(line) == StartsWith(line, "### ")

\* line 351: a '### ' heading that names a competitor
IsCompetitorHeading(line) ==
    /\ StartsWith(line, "### ")
    /\ ~\E x \in {"recommendation", "summary", "finding"} : Contains(Lower(line), x)

\* line 357
IsFindingsTrigger(line) == Contains(Lower(line), "key findings")

\* line 361
IsFindingLine(line) == StartsWithAny(Strip(line), {"1.", "2.", "3.", "4.", "5."})

\* line 362: the entry appended for a finding line
FindingEntry(line) == Strip(DropFirst(Strip(line), 3))

\* line 369
IsOpportunitiesTrigger(line) ==
    Contains(Lower(line), "market opportunities") \/ Contains(Lower(line), "opportunities")

\* line 373
IsOpportunityLine(line) == StartsWithAny(Strip(line), {"1.", "2.", "3.", "-", "*"})

\* lines 363 and 375
IsBlockEnd(line) == StartsWith(line, "##")

MetricsVocabulary ==
    { "## KEY FINDINGS", "1. Growth", " 5.Churn", "2. Key findings vary",
      "### Globex", "### Summary", "## Market Opportunities", "- Asia",
      "* opportunities abroad", "Acme grows" }

\* a key findings block of five numbered lines closed by a '##' heading
FiveFindingsReport ==
    Join(<< "## Key Findings", "1. Growth", "2. Churn", "3. Price", "4. Reach",
            "5. Brand", "## Next" >>)

\* three competitor headings
ThreeCompetitorsReport ==
    Join(<< "## DETAILED COMPETITOR ANALYSIS", "### Globex", "strong", "### Initech",
            "### Umbrella", "## STRATEGIC RECOMMENDATIONS", "### Key Recommendations" >>)

\* a report that states a threat level of its own
ThreatReport ==
    Join(<< "## Threat Level: High", "### Globex", "### Initech" >>)

MetricsTexts ==
    TextsUpTo(MetricsVocabulary, MaxMetricsLines)
        \cup {FiveFindingsReport, ThreeCompetitorsReport, TaskReport, ThreatReport}

MetricsInit ==
    /\ report_content \in MetricsTexts
    /\ pc = "metrics_entry"
    /\ lines = <<>>
    /\ idx = 0
    /\ current_section = None
    /\ current_content = <<>>
    /\ sections = [k \in SectionKeys |-> ""]
    /\ metrics = DefaultMetrics
    /\ in_findings = FALSE
    /\ in_opportunities = FALSE
    /\ elements = <<>>
    /\ clean_arg = ""
    /\ text = ""
    /\ NoException
    /\ company_name = ""
    /\ PdfIdle
    /\ FilenameIdle
    /\ AppIdle

\* lines 339-347: the default metrics and the split
MetricsBegin ==
    /\ pc = "metrics_entry"
    /\ metrics' = DefaultMetrics
    /\ lines' = Split(report_content)
    /\ idx' = 0
    /\ pc' = "metrics_count"
    /\ UNCHANGED <<otherVars, report_content, formatVars, renderVars, in_findings, in_opportunities>>

\* lines 350-352: one iteration of the competitor count
CountLine ==
    /\ pc = "metrics_count"
    /\ idx < Len(lines)
    /\ metrics' =
           IF IsCompetitorHeading(lines[idx + 1])
           THEN [metrics EXCEPT !.num_competitors = @ + 1]
           ELSE metrics
    /\ idx' = idx + 1
    /\ UNCHANGED <<otherVars, pc, report_content, lines, formatVars, renderVars, in_findings, in_opportunities>>

\* the count loop is exhausted; line 355
CountDone ==
    /\ pc = "metrics_count"
    /\ idx = Len(lines)
    /\ in_findings' = FALSE
    /\ idx' = 0
    /\ pc' = "metrics_findings"
    /\ UNCHANGED <<otherVars, report_content, lines, formatVars, renderVars, metrics, in_opportunities>>

\* lines 356-364: one iteration of the key findings scan; a break leaves the
\* loop and runs line 367
FindingsLine ==
    /\ pc = "metrics_findings"
    /\ idx < Len(lines)
    /\ LET line == lines[idx + 1] IN
       IF IsFindingsTrigger(line)
       THEN /\ in_findings' = TRUE
            /\ idx' = idx + 1
            /\ UNCHANGED <<pc, metrics, in_opportunities>>
       ELSE IF in_findings /\ IsFindingLine(line)
       THEN /\ metrics' = [metrics EXCEPT !.key_findings = Append(@, FindingEntry(line))]
            /\ idx' = idx + 1
            /\ UNCHANGED <<pc, in_findings, in_opportunities>>
       ELSE IF in_findings /\ IsBlockEnd(line)
       THEN /\ in_opportunities' = FALSE
            /\ idx' = 0
            /\ pc' = "metrics_opportunities"
            /\ UNCHANGED <<metrics, in_findings>>
       ELSE /\ idx' = idx + 1
            /\ UNCHANGED <<pc, metrics, in_findings, in_opportunities>>
    /\ UNCHANGED <<otherVars, report_content, lines, formatVars, renderVars>>

\* the key findings scan is exhausted; line 367
FindingsDone ==
    /\ pc = "metrics_findings"
    /\ idx = Len(lines)
    /\ in_opportunities' = FALSE
    /\ idx' = 0
    /\ pc' = "metrics_opportunities"
    /\ UNCHANGED <<otherVars, report_content, lines, formatVars, renderVars, metrics, in_findings>>

\* lines 368-376: one iteration of the opportunities count; a break leaves
\* the loop and returns the metrics
OpportunitiesLine ==
    /\ pc = "metrics_opportunities"
    /\ idx < Len(lines)
    /\ LET line == lines[idx + 1] IN
       IF IsOpportunitiesTrigger(line)
       THEN /\ in_opportunities' = TRUE
            /\ idx' = idx + 1
            /\ UNCHANGED <<pc, metrics>>
       ELSE IF in_opportunities /\ IsOpportunityLine(line)
       THEN /\ metrics' = [metrics EXCEPT !.opportunities = @ + 1]
            /\ idx' = idx + 1
            /\ UNCHANGED <<pc, in_opportunities>>
       ELSE IF in_opportunities /\ IsBlockEnd(line)
       THEN /\ pc' = "metrics_done"
            /\ UNCHANGED <<idx, metrics, in_opportunities>>
       ELSE /\ idx' = idx + 1
            /\ UNCHANGED <<pc, metrics, in_opportunities>>
    /\ UNCHANGED <<otherVars, report_content, lines, formatVars, renderVars, in_findings>>

\* a return that rates the threat by the number of competitors
OpportunitiesDoneRated ==
    /\ pc = "metrics_opportunities"
    /\ idx = Len(lines)
    /\ metrics' = [metrics EXCEPT !.threat_level =
                       IF metrics.num_competitors > 1 THEN "High" ELSE "Medium"]
    /\ pc' = "metrics_done"
    /\ UNCHANGED <<otherVars, report_content, lines, idx, formatVars, renderVars,
                   in_findings, in_opportunities>>

\* the opportunities count is exhausted; line 381
OpportunitiesDone ==
    /\ pc = "metrics_opportunities"
    /\ idx = Len(lines)
    /\ pc' = "metrics_done"
    /\ UNCHANGED <<otherVars, report_content, lines, idx, formatVars, renderVars, metricsVars>>

MetricsNext ==
    \/ MetricsBegin
    \/ CountLine
    \/ CountDone
    \/ FindingsLine
    \/ FindingsDone
    \/ OpportunitiesLine
    \/ OpportunitiesDone

SpecMetrics == MetricsInit /\ [][MetricsNext]_vars

(***************************************************************************)
(* Claims about extract_key_metrics                                        *)
(***************************************************************************)
\* the least element of a non-empty set of numbers
Least(S) == CHOOSE m \in S : \A n \in S : m <= n

\* the elements of a set of numbers, ascending
RECURSIVE Ascending(_)
Ascending(S) == IF S = {} THEN <<>> ELSE <<Least(S)>> \o Ascending(S \ {Least(S)})

\* index of the first line containing word, 0 when there is none
FirstLineContaining(word) ==
    LET hits == {i \in 1..Len(lines) : Contains(Lower(lines[i]), word)}
    IN  IF hits = {} THEN 0 ELSE Least(hits)

\* index of the first heading line ('##...') after line t, or one past the end
FirstHeadingAfter(t) ==
    LET hits == {i \in (t + 1)..Len(lines) : StartsWith(lines[i], "##")}
    IN  IF hits = {} THEN Len(lines) + 1 ELSE Least(hits)

\* the lines between the first line containing word and the first heading
\* after it that begin, after trimming, with one of the markers
BlockLines(word, markers) ==
    LET t == FirstLineContaining(word) IN
    IF t = 0 THEN {}
    ELSE {i \in (t + 1)..(FirstHeadingAfter(t) - 1) : StartsWithAny(Strip(lines[i]), markers)}

FindingMarkers == {"1.", "2.", "3.", "4.", "5."}
OpportunityMarkers == {"1.", "2.", "3.", "-", "*"}

\* C4: key_findings holds, in input order, one entry for exactly the lines
\* that come after the first line containing 'key findings', before the first
\* heading line after it, and begin (trimmed) with '1.' to '5.'.
C4_FindingsAreTheNumberedLinesOfTheBlock ==
    pc = "metrics_done"
        => LET picked == Ascending(BlockLines("key findings", FindingMarkers))
           IN  metrics.key_findings =
                   [m \in 1..Len(picked) |-> FindingEntry(lines[picked[m]])]

\* C5: every entry of key_findings is its source line with the two-character
\* marker 'N.' and the surrounding whitespace removed, and the block of five
\* numbered lines followed by a '##' heading yields five entries.
C5_EntryIsTextAfterMarker ==
    /\ [][(pc = "metrics_findings"
             /\ Len(metrics'.key_findings) = Len(metrics.key_findings) + 1)
            => metrics'.key_findings[Len(metrics'.key_findings)]
                   = Strip(DropFirst(Strip(lines[idx + 1]), 2))]_vars
    /\ []((pc = "metrics_done" /\ report_content = FiveFindingsReport)
            => Len(metrics.key_findings) = 5)

\* C6: opportunities is the number of lines that come after the first line
\* containing 'opportunities', before the next heading line, and begin
\* (trimmed) with '1.', '2.', '3.', '-' or '*'.
C6_OpportunitiesCountsTheMarkedLinesOfTheBlock ==
    pc = "metrics_done"
        => metrics.opportunities
               = Cardinality(BlockLines("opportunities", OpportunityMarkers))

\* C7: num_competitors is the number of lines that begin with '### ' and
\* whose lower-cased text contains none of 'recommendation', 'summary',
\* 'finding'.
C7_CompetitorCount ==
    pc = "metrics_done"
        => metrics.num_competitors
               = Cardinality({i \in 1..Len(lines) :
                                 /\ StartsWith(lines[i], "### ")
                                 /\ ~Contains(Lower(lines[i]), "recommendation")
                                 /\ ~Contains(Lower(lines[i]), "summary")
                                 /\ ~Contains(Lower(lines[i]), "finding")})

C7_Witness ==
    /\ pc = "metrics_done"
    /\ metrics.num_competitors = 3
    /\ \E i \in 1..Len(lines) :
           StartsWith(lines[i], "### ") /\ Contains(Lower(lines[i]), "recommendation")

(***************************************************************************)
(* PDFReportGenerator._clean_markdown                                      *)
(***************************************************************************)
\* re.sub(d(.+?)d, open\1close, s) for a literal delimiter d: leftmost
\* matches, the shortest non-empty content free of newlines, no overlaps
RECURSIVE SubDelimited(_, _, _, _)
SubDelimited(s, d, open, close) ==
    LET n == Len(d)
        ends == {k \in 1..(Len(s) - 2 * n) :
                    /\ SubSeq(s, n + k + 1, n + k + n) = d
                    /\ \A j \in (n + 1)..(n + k) : Char(s, j) # "\n"}
    IN  IF Len(s) < 2 * n + 1 THEN s
        ELSE IF StartsWith(s, d) /\ ends # {}
        THEN LET k == CHOOSE m \in ends : \A o \in ends : m <= o
             IN  open \o SubSeq(s, n + 1, n + k) \o close
                     \o SubDelimited(DropFirst(s, 2 * n + k), d, open, close)
        ELSE Char(s, 1) \o SubDelimited(DropFirst(s, 1), d, open, close)

\* line 249
SubBold(s) == SubDelimited(s, "**", "<b>", "</b>")

\* line 251
SubItalic(s) == SubDelimited(s, "*", "<i>", "</i>")

\* the backquote of the inline-code pattern; the strings of this module cannot
\* hold that character, "$" stands for it and occurs in no text otherwise
Backquote == "$"

\* line 253
SubCode(s) == SubDelimited(s, Backquote, "<font name=\"Courier\">", "</font>")

\* _clean_markdown with the italic pattern applied before the bold one
CleanMarkdownItalicFirst(s) == SubCode(SubBold(SubItalic(s)))

\* _clean_markdown as one call
CleanMarkdown(s) == SubCode(SubItalic(SubBold(s)))

MaxSegments == 3

\* the pieces a line is made of: emphasis spans, plain text, a lone asterisk
CleanSegments ==
    {"**bold**", "*italic*", Backquote \o "code" \o Backquote, " and ", "*"}

RECURSIVE SegmentLines(_, _)
SegmentLines(segments, n) ==
    IF n = 0 THEN {""}
    ELSE {g \o l : g \in segments, l \in SegmentLines(segments, n - 1)}

CleanInputs == UNION {SegmentLines(CleanSegments, n) : n \in 1..MaxSegments}

CleanInit ==
    /\ clean_arg \in CleanInputs
    /\ text = clean_arg
    /\ pc = "clean_bold"
    /\ report_content = ""
    /\ lines = <<>>
    /\ idx = 0
    /\ current_section = None
    /\ current_content = <<>>
    /\ sections = [k \in SectionKeys |-> ""]
    /\ metrics = DefaultMetrics
    /\ in_findings = FALSE
    /\ in_opportunities = FALSE
    /\ elements = <<>>
    /\ NoException
    /\ company_name = ""
    /\ PdfIdle
    /\ FilenameIdle
    /\ AppIdle

cleanFrame ==
    <<otherVars, report_content, lines, idx, formatVars, metricsVars, elements, clean_arg>>

\* line 249
CleanBold ==
    /\ pc = "clean_bold"
    /\ text' = SubBold(text)
    /\ pc' = "clean_italic"
    /\ UNCHANGED cleanFrame

\* line 251
CleanItalic ==
    /\ pc = "clean_italic"
    /\ text' = SubItalic(text)
    /\ pc' = "clean_code"
    /\ UNCHANGED cleanFrame

\* lines 253-255
CleanCode ==
    /\ pc = "clean_code"
    /\ text' = SubCode(text)
    /\ pc' = "clean_done"
    /\ UNCHANGED cleanFrame

CleanNext == CleanBold \/ CleanItalic \/ CleanCode

SpecClean == CleanInit /\ [][CleanNext]_vars

(***************************************************************************)
(* Claims about _clean_markdown                                            *)
(***************************************************************************)
\* lines made of '**x**' spans, '*y*' spans and plain text only: the spans
\* do not overlap and their contents hold no asterisk; each line is paired
\* with the text in which every span is replaced by its tag pair
RECURSIVE SpanLines(_)
SpanLines(n) ==
    IF n = 0 THEN {<<"", "">>}
    ELSE {<<g[1] \o l[1], g[2] \o l[2]>> :
              g \in {<<"**bold**", "<b>bold</b>">>, <<"*italic*", "<i>italic</i>">>,
                     <<" and ", " and ">>},
              l \in SpanLines(n - 1)}

ResolvedSpanLines == UNION {SpanLines(n) : n \in 1..MaxSegments}

\* C9: bold is resolved before italic: on a line whose '**x**' and '*y*'
\* spans do not overlap and hold no asterisk, every '**x**' becomes <b>x</b>
\* and every '*y*' becomes <i>y</i>, properly nested, and no asterisk is
\* left; so '**bold** and *italic*' gives '<b>bold</b> and <i>italic</i>'.
C9_SpansResolvedBoldBeforeItalic ==
    pc = "clean_done"
        => \A p \in ResolvedSpanLines : p[1] = clean_arg => text = p[2]

\* the example of the claim alone
C9_ExampleResolved ==
    (pc = "clean_done" /\ clean_arg = "**bold** and *italic*")
        => text = "<b>bold</b> and <i>italic</i>"

(***************************************************************************)
(* PDFReportGenerator._parse_report_content                                *)
(***************************************************************************)
\* the bullet character U+2022 of line 220; the strings of this module cannot
\* hold it, "@" stands for it and occurs in no text otherwise
BulletGlyph == "@"

\* Paragraph(text, self.styles[style])
Paragraph(t, style) == [flowable |-> "Paragraph", text |-> t, style |-> style, height |-> 0]

\* Spacer(1, h * inch), the height in hundredths of an inch
Spacer(h) == [flowable |-> "Spacer", text |-> "", style |-> "", height |-> h]

\* the chain with the numbered-list test accepting every ordinal digit
BlocksOfLineAnyOrdinal(l) ==
    IF l = "" THEN <<>>
    ELSE IF StartsWith(l, "# ")
    THEN <<Paragraph(Strip(DropFirst(l, 2)), "CustomTitle"), Spacer(20)>>
    ELSE IF StartsWith(l, "## ")
    THEN <<Spacer(15), Paragraph(Strip(DropFirst(l, 3)), "CustomHeading2"), Spacer(10)>>
    ELSE IF StartsWith(l, "### ")
    THEN <<Paragraph(Strip(DropFirst(l, 4)), "CustomHeading3"), Spacer(5)>>
    ELSE IF StartsWith(l, "- ") \/ StartsWith(l, "* ")
    THEN <<Paragraph(BulletGlyph \o " " \o Strip(DropFirst(l, 2)), "CustomBullet")>>
    ELSE IF \E d \in {"1", "2", "3", "4", "5", "6", "7", "8", "9"} : StartsWith(l, d \o ". ")
    THEN <<Paragraph(Char(l, 1) \o ". " \o Strip(DropFirst(l, 3)), "CustomBullet")>>
    ELSE IF StartsWith(l, "---")
    THEN <<Spacer(10)>>
    ELSE <<Paragraph(CleanMarkdown(l), "CustomBody")>>

\* lines 193-240: the flowables appended for one trimmed line
BlocksOfLine(l) ==
    IF l = "" THEN <<>>
    ELSE IF StartsWith(l, "# ")
    THEN <<Paragraph(Strip(DropFirst(l, 2)), "CustomTitle"), Spacer(20)>>
    ELSE IF StartsWith(l, "## ")
    THEN <<Spacer(15), Paragraph(Strip(DropFirst(l, 3)), "CustomHeading2"), Spacer(10)>>
    ELSE IF StartsWith(l, "### ")
    THEN <<Paragraph(Strip(DropFirst(l, 4)), "CustomHeading3"), Spacer(5)>>
    ELSE IF StartsWith(l, "- ") \/ StartsWith(l, "* ")
    THEN <<Paragraph(BulletGlyph \o " " \o Strip(DropFirst(l, 2)), "CustomBullet")>>
    ELSE IF StartsWith(l, "1. ") \/ StartsWith(l, "2. ") \/ StartsWith(l, "3. ")
    THEN <<Paragraph(Char(l, 1) \o ". " \o Strip(DropFirst(l, 3)), "CustomBullet")>>
    ELSE IF StartsWith(l, "---")
    THEN <<Spacer(10)>>
    ELSE <<Paragraph(CleanMarkdown(l), "CustomBody")>>

MaxRenderLines == 3

\* every asterisk and backquote of these lines is a list marker or part of
\* a '**x**', '*x*' or code span
RenderVocabulary ==
    { "", "# Report", "## **Key** Findings", "### Globex", "- **strong** brand",
      "* item", "  2. Second " \o Backquote \o "x" \o Backquote, "4. Fourth", "---",
      "----", "-- dashes", "Acme *leads* " }

RenderTexts == TextsUpTo(RenderVocabulary, MaxRenderLines) \cup {TaskReport}

ParseInit ==
    /\ report_content \in RenderTexts
    /\ pc = "parse_entry"
    /\ lines = <<>>
    /\ idx = 0
    /\ current_section = None
    /\ current_content = <<>>
    /\ sections = [k \in SectionKeys |-> ""]
    /\ metrics = DefaultMetrics
    /\ in_findings = FALSE
    /\ in_opportunities = FALSE
    /\ elements = <<>>
    /\ clean_arg = ""
    /\ text = ""
    /\ NoException
    /\ company_name = ""
    /\ PdfIdle
    /\ FilenameIdle
    /\ AppIdle

\* lines 185-188
ParseBegin ==
    /\ pc = "parse_entry"
    /\ elements' = <<>>
    /\ lines' = Split(report_content)
    /\ idx' = 0
    /\ pc' = "parse_loop"
    /\ UNCHANGED <<otherVars, report_content, formatVars, metricsVars, clean_arg, text>>

\* lines 189-242: one iteration of the while loop
ParseLine ==
    /\ pc = "parse_loop"
    /\ idx < Len(lines)
    /\ elements' = elements \o BlocksOfLine(Strip(lines[idx + 1]))
    /\ idx' = idx + 1
    /\ UNCHANGED <<otherVars, pc, report_content, lines, formatVars, metricsVars, clean_arg, text>>

\* line 244
ParseFinish ==
    /\ pc = "parse_loop"
    /\ idx = Len(lines)
    /\ pc' = "parse_done"
    /\ UNCHANGED <<otherVars, report_content, lines, idx, formatVars, metricsVars, renderVars>>

ParseNext == ParseBegin \/ ParseLine \/ ParseFinish

SpecParse == ParseInit /\ [][ParseNext]_vars

(***************************************************************************)
(* Claims about _parse_report_content                                      *)
(***************************************************************************)
\* C8: every block produced by the renderer carries inline-resolved text: in
\* the text of every heading, bullet item, numbered item and body paragraph
\* the emphasis spans are replaced by annotations and no raw emphasis markup
\* (asterisk, backquote) remains.
C8_NoRawMarkupInAnyBlock ==
    \A i \in 1..Len(elements) :
        elements[i].flowable = "Paragraph"
            => ~Contains(elements[i].text, "*") /\ ~Contains(elements[i].text, Backquote)

\* what the claim says of a block: its kind, and for list items its text
KindOfBlock(b) ==
    IF b.flowable = "Spacer" THEN <<"spacer", "">>
    ELSE IF b.style = "CustomTitle" THEN <<"title", "">>
    ELSE IF b.style = "CustomHeading2" THEN <<"heading2", "">>
    ELSE IF b.style = "CustomHeading3" THEN <<"heading3", "">>
    ELSE IF b.style = "CustomBullet" THEN <<"item", b.text>>
    ELSE IF b.style = "CustomBody" THEN <<"body", "">>
    ELSE <<"other", "">>

\* the blocks the claim gives a trimmed line
BlocksClaimed(l) ==
    CASE l = "" -> <<>>
      [] StartsWith(l, "# ") -> << <<"title", "">>, <<"spacer", "">> >>
      [] StartsWith(l, "## ") ->
             << <<"spacer", "">>, <<"heading2", "">>, <<"spacer", "">> >>
      [] StartsWith(l, "### ") -> << <<"heading3", "">>, <<"spacer", "">> >>
      [] StartsWith(l, "- ") \/ StartsWith(l, "* ") ->
             << <<"item", BulletGlyph \o " " \o Strip(SubSeq(l, 3, Len(l)))>> >>
      [] \E d \in {"1", "2", "3"} : StartsWith(l, d \o ". ") ->
             << <<"item", SubSeq(l, 1, 1) \o ". " \o Strip(SubSeq(l, 4, Len(l)))>> >>
      [] StartsWith(l, "---") -> << <<"spacer", "">> >>
      [] OTHER -> << <<"body", "">> >>

RECURSIVE BlocksClaimedOfLines(_)
BlocksClaimedOfLines(ls) ==
    IF ls = <<>> THEN <<>>
    ELSE BlocksClaimed(Strip(Head(ls))) \o BlocksClaimedOfLines(Tail(ls))

\* C10: the body block sequence is the concatenation, in line order, of the
\* blocks of each trimmed line: empty -> nothing; '# ' -> title, spacer;
\* '## ' -> spacer, heading 2, spacer; '### ' -> heading 3, spacer; '- ' or
\* '* ' -> one bullet item with the glyph prefixed; '1. ', '2. ' or '3. '
\* -> one numbered item keeping digit and remainder; '---' -> one spacer;
\* any other line ('4. x' included) -> one body paragraph.
C10_BlocksPerLineInOrder ==
    pc = "parse_done"
        => [i \in 1..Len(elements) |-> KindOfBlock(elements[i])]
               = BlocksClaimedOfLines(lines)

C10_Witness ==
    /\ pc = "parse_done"
    /\ Len(lines) = 3
    /\ StartsWith(Strip(lines[1]), "2. ")
    /\ StartsWith(lines[2], "4. ")
    /\ StartsWith(lines[3], "## ")
    /\ Len(elements) = 5
    /\ elements[2].style = "CustomBody"

(***************************************************************************)
(* datetime.now().strftime: a date is a record of year, month and day.     *)
(***************************************************************************)
DigitChars == "0123456789"

\* the decimal digit d as a character
Digit(d) == Char(DigitChars, d + 1)

\* %d and %m: two digits, zero padded
TwoDigits(n) == Digit((n \div 10) % 10) \o Digit(n % 10)

\* %Y: four digits
FourDigits(n) == TwoDigits(n \div 100) \o TwoDigits(n % 100)

\* %B
MonthNames ==
    << "January", "February", "March", "April", "May", "June", "July",
       "August", "September", "October", "November", "December" >>

\* strftime('%B %d, %Y')
LongDate(d) == MonthNames[d.month] \o " " \o TwoDigits(d.day) \o ", " \o FourDigits(d.year)

\* strftime('%Y%m%d')
CompactDate(d) == FourDigits(d.year) \o TwoDigits(d.month) \o TwoDigits(d.day)

\* the days the functions are called on
Dates ==
    { [year |-> 2024, month |-> 5, day |-> 1],
      [year |-> 2025, month |-> 12, day |-> 25] }

(***************************************************************************)
(* PDFReportGenerator.generate_pdf (lines 98-141) on one instance.  The    *)
(* constructor (lines 27-39) stores the company name and the industry and  *)
(* creates the BytesIO buffer once.  Paragraph construction and doc.build  *)
(* are reportlab code that raises on markup it cannot parse, so an         *)
(* exception may be raised at any statement of the try block.              *)
(***************************************************************************)
PageBreak == [flowable |-> "PageBreak", text |-> "", style |-> "", height |-> 0]

\* a title page that ends without the page break
CreateTitlePageNoBreak(company, ind, date) ==
    << Paragraph("COMPETITOR ANALYSIS REPORT", "CustomTitle"),
       Spacer(30),
       Paragraph("<b>" \o company \o "</b>", "CustomHeading2"),
       Spacer(20),
       Paragraph("Industry: " \o ind, "CustomBody"),
       Spacer(10),
       Paragraph("Report Date: " \o LongDate(date), "CustomBody") >>

\* _create_title_page, lines 143-181 (spacer heights in hundredths of an inch)
CreateTitlePage(company, ind, date) ==
    << Paragraph("COMPETITOR ANALYSIS REPORT", "CustomTitle"),
       Spacer(30),
       Paragraph("<b>" \o company \o "</b>", "CustomHeading2"),
       Spacer(20),
       Paragraph("Industry: " \o ind, "CustomBody"),
       Spacer(10),
       Paragraph("Report Date: " \o LongDate(date), "CustomBody"),
       PageBreak >>

\* the first and the last chunk of a PDF file
PdfHeader == [flowable |-> "%PDF", text |-> "", style |-> "", height |-> 0]
PdfTrailer == [flowable |-> "%%EOF", text |-> "", style |-> "", height |-> 0]

\* doc.build(elements): the document reportlab writes, as one chunk per
\* flowable between the file header and the end-of-file marker
DocumentBytes(elems) == <<PdfHeader>> \o elems \o <<PdfTrailer>>

\* BytesIO.write at position pos: overwrites what is there, extends the
\* buffer when the data is longer, never truncates
BufferWrite(buf, pos, data) ==
    SubSeq(buf, 1, pos) \o data \o SubSeq(buf, pos + Len(data) + 1, Len(buf))

MaxPdfLines == 1
MaxCalls == 2

\* the (company name, industry) pairs the generator is constructed with
Companies == { <<"Acme", "SaaS">>, <<"Globex & Sons", "Retail <EU>">> }

PdfTexts == TextsUpTo(RenderVocabulary, MaxPdfLines) \cup {TaskReport}

\* the report texts of a second and later call on the same instance
RepeatTexts == {"", "# Report", TaskReport}

\* the instance is constructed and generate_pdf is called
PdfInit ==
    /\ report_content \in PdfTexts
    /\ \E c \in Companies : company_name = c[1] /\ industry = c[2]
    /\ today \in Dates
    /\ pc = "pdf_entry"
    /\ buffer = <<>>
    /\ calls = 0
    /\ pdf_elements = <<>>
    /\ exc = None
    /\ lines = <<>>
    /\ idx = 0
    /\ current_section = None
    /\ current_content = <<>>
    /\ sections = [k \in SectionKeys |-> ""]
    /\ metrics = DefaultMetrics
    /\ in_findings = FALSE
    /\ in_opportunities = FALSE
    /\ elements = <<>>
    /\ clean_arg = ""
    /\ text = ""
    /\ FilenameIdle
    /\ AppIdle

pdfFrame == <<report_content, lines, idx, formatVars, metricsVars, renderVars,
              filenameVars, appVars, company_name, industry, today>>

\* lines 111-127: the document template, the title page, the call of
\* _parse_report_content
PdfBegin ==
    /\ pc = "pdf_entry"
    /\ calls' = calls + 1
    /\ pdf_elements' = CreateTitlePage(company_name, industry, today)
    /\ pc' = "parse_entry"
    /\ UNCHANGED <<pdfFrame, exc, buffer>>

\* an extend that puts the parsed body in front of what the list holds
PdfExtendBodyFirst ==
    /\ pc = "parse_done"
    /\ pdf_elements' = elements \o pdf_elements
    /\ pc' = "pdf_build"
    /\ UNCHANGED <<pdfFrame, exc, buffer, calls>>

\* line 127: elements.extend(<the parsed body>)
PdfExtendBody ==
    /\ pc = "parse_done"
    /\ pdf_elements' = pdf_elements \o elements
    /\ pc' = "pdf_build"
    /\ UNCHANGED <<pdfFrame, exc, buffer, calls>>

\* lines 130-137: doc.build writes the document at the buffer position,
\* which is 0 in a new BytesIO and after seek(0); return self.buffer
PdfBuild ==
    /\ pc = "pdf_build"
    /\ buffer' = BufferWrite(buffer, 0, DocumentBytes(pdf_elements))
    /\ pc' = "pdf_returned"
    /\ UNCHANGED <<pdfFrame, exc, pdf_elements, calls>>

\* a statement of the try block (lines 109-137) raises
PdfRaise ==
    /\ pc \in {"pdf_entry", "parse_entry", "parse_loop", "parse_done", "pdf_build"}
    /\ exc' = "Exception"
    /\ pc' = "pdf_except"
    /\ UNCHANGED <<pdfFrame, pdf_elements, buffer, calls>>

\* a handler that logs and returns the buffer
PdfExceptSwallow ==
    /\ pc = "pdf_except"
    /\ pc' = "pdf_returned"
    /\ UNCHANGED <<pdfFrame, exc, pdf_elements, buffer, calls>>

\* lines 139-141: the handler logs and re-raises
PdfExcept ==
    /\ pc = "pdf_except"
    /\ pc' = "pdf_raised"
    /\ UNCHANGED <<pdfFrame, exc, pdf_elements, buffer, calls>>

\* the caller invokes generate_pdf again on the same instance
PdfCallAgain ==
    /\ pc = "pdf_returned"
    /\ calls < MaxCalls
    /\ report_content' \in RepeatTexts
    /\ exc' = None
    /\ pc' = "pdf_entry"
    /\ UNCHANGED <<lines, idx, formatVars, metricsVars, renderVars, filenameVars,
                   appVars, company_name, industry, today, pdf_elements, buffer, calls>>

PdfNext ==
    \/ PdfBegin
    \/ ParseBegin
    \/ ParseLine
    \/ ParseFinish
    \/ PdfExtendBody
    \/ PdfBuild
    \/ PdfRaise
    \/ PdfExcept
    \/ PdfCallAgain

SpecPdf == PdfInit /\ [][PdfNext]_vars

(***************************************************************************)
(* Claims about generate_pdf                                               *)
(***************************************************************************)
IsNotSpacer(b) == b.flowable # "Spacer"

\* C11: the element list generate_pdf hands to doc.build begins with the
\* title page: the title "COMPETITOR ANALYSIS REPORT", the company name,
\* the industry, the report date and the page break, in that order with
\* only spacers between them, the company name and the industry verbatim;
\* everything after the page break is the parsed body of the report text
\* and no body block stands before it.
C11_TitlePageFirst ==
    pc \in {"pdf_build", "pdf_returned"} /\ exc = None =>
        /\ Len(pdf_elements) >= 8
        /\ LET fields == SelectSeq(SubSeq(pdf_elements, 1, 8), IsNotSpacer)
           IN  /\ Len(fields) = 5
               /\ fields[1].text = "COMPETITOR ANALYSIS REPORT"
               /\ fields[2].flowable = "Paragraph"
               /\ Contains(fields[2].text, company_name)
               /\ fields[3].flowable = "Paragraph"
               /\ Contains(fields[3].text, industry)
               /\ fields[4].text = "Report Date: " \o LongDate(today)
               /\ fields[5].flowable = "PageBreak"
        /\ pdf_elements[8].flowable = "PageBreak"
        /\ SubSeq(pdf_elements, 9, Len(pdf_elements)) = elements

C11_Witness ==
    /\ pc = "pdf_returned"
    /\ exc = None
    /\ company_name = "Globex & Sons"
    /\ industry = "Retail <EU>"
    /\ today.day = 1
    /\ report_content = TaskReport
    /\ Len(pdf_elements) > 8

\* C16: an exception raised while generate_pdf builds the document is
\* re-raised to the caller: a call in which a statement of the try block
\* raised ends with the exception leaving the function and never at the
\* return of the buffer.
C16_FailureIsReRaised ==
    /\ pc = "pdf_returned" => exc = None
    /\ exc # None => pc \in {"pdf_except", "pdf_raised"}

C16_Witness ==
    /\ pc = "pdf_raised"
    /\ exc # None
    /\ Len(pdf_elements) = 8
    /\ elements # <<>>

RECURSIVE ParsedBody(_)
\* the blocks of the stripped lines ls, in order
ParsedBody(ls) ==
    IF ls = <<>> THEN <<>>
    ELSE BlocksOfLine(Strip(Head(ls))) \o ParsedBody(Tail(ls))

\* the buffer a first call on a new instance returns for the arguments
FirstCallBuffer ==
    DocumentBytes(CreateTitlePage(company_name, industry, today)
                      \o ParsedBody(Split(report_content)))

\* C19: a call leaves no residual state: the buffer generate_pdf returns
\* depends only on the arguments and the date, so a repeated call on the
\* same PDFReportGenerator instance returns what a first call with that
\* report text returns.
C19_NoResidualState ==
    pc = "pdf_returned" => buffer = FirstCallBuffer

(***************************************************************************)
(* generate_filename (lines 403-423)                                       *)
(***************************************************************************)
\* the characters of s as a set
CharsOf(s) == {Char(s, i) : i \in 1..Len(s)}

\* regular expression class \w: letters, digits and the underscore
WordChars == CharsOf(UpperCaseLetters) \cup CharsOf(LowerCaseLetters) \cup CharsOf(DigitChars) \cup {"_"}

\* regular expression class \s
RegexSpaces == {" ", "\t", "\n", "\r", "\f"}

RECURSIVE StripSpecial(_)
\* re.sub(r'[^\w\s-]', '', s): delete every character outside the class
StripSpecial(s) ==
    IF Len(s) = 0 THEN s
    ELSE (IF Char(s, 1) \in WordChars \cup RegexSpaces \cup {"-"} THEN Char(s, 1) ELSE "")
         \o StripSpecial(DropFirst(s, 1))

RECURSIVE SkipSeparators(_)
\* s without its leading hyphens and whitespace
SkipSeparators(s) ==
    IF Len(s) > 0 /\ Char(s, 1) \in RegexSpaces \cup {"-"}
    THEN SkipSeparators(DropFirst(s, 1))
    ELSE s

RECURSIVE CollapseEach(_)
\* re.sub(r'[-\s]', '_', s): one underscore for every hyphen or whitespace
CollapseEach(s) ==
    IF Len(s) = 0 THEN s
    ELSE (IF Char(s, 1) \in RegexSpaces \cup {"-"} THEN "_" ELSE Char(s, 1))
         \o CollapseEach(DropFirst(s, 1))

RECURSIVE CollapseSeparators(_)
\* re.sub(r'[-\s]+', '_', s): the greedy match takes the whole run
CollapseSeparators(s) ==
    IF Len(s) = 0 THEN s
    ELSE IF Char(s, 1) \in RegexSpaces \cup {"-"}
    THEN "_" \o CollapseSeparators(SkipSeparators(s))
    ELSE Char(s, 1) \o CollapseSeparators(DropFirst(s, 1))

MaxNameLen == 3

NameAlphabet == {"A", "7", "_", "-", " ", "."}

RECURSIVE NamesOfLength(_)
\* every string over the alphabet of length n
NamesOfLength(n) ==
    IF n = 0 THEN {""}
    ELSE {c \o w : c \in NameAlphabet, w \in NamesOfLength(n - 1)}

CompanyNames ==
    UNION {NamesOfLength(n) : n \in 0..MaxNameLen} \cup {"Acme, Inc.", "A - \tB"}

Extensions == {"pdf", "txt"}

FilenameInit ==
    /\ company_name \in CompanyNames
    /\ extension \in Extensions
    /\ today \in Dates
    /\ pc = "filename_entry"
    /\ clean_name = ""
    /\ filename = ""
    /\ exc = None
    /\ report_content = ""
    /\ lines = <<>>
    /\ idx = 0
    /\ current_section = None
    /\ current_content = <<>>
    /\ sections = [k \in SectionKeys |-> ""]
    /\ metrics = DefaultMetrics
    /\ in_findings = FALSE
    /\ in_opportunities = FALSE
    /\ elements = <<>>
    /\ clean_arg = ""
    /\ text = ""
    /\ industry = ""
    /\ pdf_elements = <<>>
    /\ buffer = <<>>
    /\ calls = 0
    /\ AppIdle

filenameFrame ==
    <<report_content, lines, idx, formatVars, metricsVars, renderVars, exc,
      company_name, industry, today, pdf_elements, buffer, calls, extension, appVars>>

\* line 415
FilenameStrip ==
    /\ pc = "filename_entry"
    /\ clean_name' = StripSpecial(company_name)
    /\ pc' = "filename_collapse"
    /\ UNCHANGED <<filenameFrame, filename>>

\* line 416
FilenameCollapse ==
    /\ pc = "filename_collapse"
    /\ clean_name' = CollapseSeparators(clean_name)
    /\ pc' = "filename_compose"
    /\ UNCHANGED <<filenameFrame, filename>>

\* lines 419-423
FilenameCompose ==
    /\ pc = "filename_compose"
    /\ filename' = "competitor_analysis_" \o clean_name \o "_" \o CompactDate(today)
                       \o "." \o extension
    /\ pc' = "filename_done"
    /\ UNCHANGED <<filenameFrame, clean_name>>

FilenameNext == FilenameStrip \/ FilenameCollapse \/ FilenameCompose

SpecFilename == FilenameInit /\ [][FilenameNext]_vars

(***************************************************************************)
(* Claims about generate_filename                                          *)
(***************************************************************************)
IsAllowedChar(c) == c \in WordChars \/ c \in RegexSpaces \/ c = "-"
IsSeparatorChar(c) == c \in RegexSpaces \/ c = "-"

RECURSIVE AllowedOnly(_)
\* s with every character that is not allowed deleted (from the right end)
AllowedOnly(s) ==
    IF Len(s) = 0 THEN ""
    ELSE AllowedOnly(SubSeq(s, 1, Len(s) - 1))
         \o (IF IsAllowedChar(Char(s, Len(s))) THEN Char(s, Len(s)) ELSE "")

RECURSIVE RunsAsUnderscore(_)
\* s with one underscore at the place where each maximal run of separators
\* begins and nothing for the rest of the run
RunsAsUnderscore(s) ==
    IF Len(s) = 0 THEN ""
    ELSE RunsAsUnderscore(SubSeq(s, 1, Len(s) - 1))
         \o (IF ~IsSeparatorChar(Char(s, Len(s))) THEN Char(s, Len(s))
             ELSE IF Len(s) > 1 /\ IsSeparatorChar(Char(s, Len(s) - 1)) THEN ""
             ELSE "_")

\* C12: generate_filename returns 'competitor_analysis_' + S + '_' +
\* YYYYMMDD + '.' + extension, S being the company name with every
\* character other than letters, digits, underscore, whitespace and hyphen
\* deleted and then every maximal run of hyphens and whitespace replaced by
\* one underscore; ('Acme, Inc.', 'pdf') on 2024-05-01 gives
\* 'competitor_analysis_Acme_Inc_20240501.pdf', the empty name gives
\* 'competitor_analysis__<date>.<ext>'; every call runs to its return.
C12_FilenameShape ==
    /\ pc \in {"filename_entry", "filename_collapse", "filename_compose"} =>
           ENABLED FilenameNext
    /\ pc = "filename_done" =>
           /\ filename = "competitor_analysis_"
                             \o RunsAsUnderscore(AllowedOnly(company_name))
                             \o "_" \o FourDigits(today.year) \o TwoDigits(today.month)
                             \o TwoDigits(today.day) \o "." \o extension
           /\ company_name = "Acme, Inc." /\ extension = "pdf"
                  /\ today = [year |-> 2024, month |-> 5, day |-> 1] =>
                  filename = "competitor_analysis_Acme_Inc_20240501.pdf"
           /\ company_name = "" /\ extension = "txt"
                  /\ today = [year |-> 2025, month |-> 12, day |-> 25] =>
                  filename = "competitor_analysis__20251225.txt"

C12_Witness ==
    /\ pc = "filename_done"
    /\ company_name = "A - \tB"
    /\ filename = "competitor_analysis_A_B_20240501.pdf"

(***************************************************************************)
(* The try blocks of format_report_for_display (lines 275-324) and         *)
(* extract_key_metrics (lines 346-379).  Both catch Exception, so the      *)
(* handlers see whatever a statement of the block raises, at whichever     *)
(* statement it is raised: the split (an argument that is not a str) or    *)
(* any later statement (MemoryError is an Exception).  The result object   *)
(* is created before the try and updated in place inside it.               *)
(***************************************************************************)
MaxFaultLines == 2

\* a line with markup that is never closed
UnbalancedMarkup == "**Acme *leads " \o Backquote \o "x"

FaultTexts ==
    TextsUpTo(FormatVocabulary, MaxFaultLines)
        \cup TextsUpTo(MetricsVocabulary, MaxFaultLines)
        \cup {TemplateReport, TaskReport, FiveFindingsReport, ThreeCompetitorsReport,
              UnbalancedMarkup}

\* one of the two functions is called
FaultInit ==
    /\ report_content \in FaultTexts
    /\ pc \in {"format_entry", "metrics_entry"}
    /\ lines = <<>>
    /\ idx = 0
    /\ current_section = None
    /\ current_content = <<>>
    /\ sections = [k \in SectionKeys |-> ""]
    /\ metrics = DefaultMetrics
    /\ in_findings = FALSE
    /\ in_opportunities = FALSE
    /\ elements = <<>>
    /\ clean_arg = ""
    /\ text = ""
    /\ NoException
    /\ company_name = ""
    /\ PdfIdle
    /\ FilenameIdle
    /\ AppIdle

faultFrame == <<report_content, lines, idx, current_section, current_content,
                in_findings, in_opportunities, renderVars, pdfVars, filenameVars,
                appVars>>

\* a statement of format_report_for_display's try block raises
FormatRaise ==
    /\ pc \in {"format_entry", "format_loop"}
    /\ exc' = "Exception"
    /\ pc' = "format_except"
    /\ UNCHANGED <<faultFrame, sections, metrics>>

\* a handler that lets the exception out
FormatExceptReraise ==
    /\ pc = "format_except"
    /\ pc' = "format_raised"
    /\ UNCHANGED <<faultFrame, exc, sections, metrics>>

\* a handler that returns a new map holding the overview alone
FormatExceptFreshMap ==
    /\ pc = "format_except"
    /\ sections' = [k \in {"overview"} |-> report_content]
    /\ pc' = "format_done"
    /\ UNCHANGED <<faultFrame, exc, metrics>>

\* lines 322-326: log, overview = report_content, return sections
FormatExcept ==
    /\ pc = "format_except"
    /\ sections' = DictSet(sections, "overview", report_content)
    /\ pc' = "format_done"
    /\ UNCHANGED <<faultFrame, exc, metrics>>

\* a statement of extract_key_metrics's try block raises
MetricsRaise ==
    /\ pc \in {"metrics_entry", "metrics_count", "metrics_findings", "metrics_opportunities"}
    /\ exc' = "Exception"
    /\ pc' = "metrics_except"
    /\ UNCHANGED <<faultFrame, sections, metrics>>

\* lines 378-381: log, return metrics
MetricsExcept ==
    /\ pc = "metrics_except"
    /\ pc' = "metrics_done"
    /\ UNCHANGED <<faultFrame, exc, sections, metrics>>

FaultNext ==
    \/ FormatNext
    \/ FormatRaise
    \/ FormatExcept
    \/ MetricsNext
    \/ MetricsRaise
    \/ MetricsExcept

SpecFault == FaultInit /\ [][FaultNext]_vars

(***************************************************************************)
(* Claims about the exception handlers                                     *)
(***************************************************************************)
\* the positions of a call that has not returned, with the loop positions
\* inside the line list: at each of them the next statement can run
RunningPositions ==
    {"format_entry", "format_loop", "format_except",
     "metrics_entry", "metrics_count", "metrics_findings", "metrics_opportunities",
     "metrics_except"}

\* C13: format_report_for_display and extract_key_metrics never raise for
\* a string argument, the empty string and strings with unbalanced markup
\* included: no call ends with an exception leaving the function; a call
\* is either at a statement that can run or has returned a result that
\* has all its keys.
C13_NeverRaises ==
    /\ pc \notin {"format_raised", "metrics_raised"}
    /\ \/ pc \in RunningPositions /\ idx <= Len(lines)
       \/ /\ pc \in {"format_done", "metrics_done"}
          /\ DOMAIN sections = SectionKeys
          /\ DOMAIN metrics = DOMAIN DefaultMetrics

C13_Witness ==
    /\ pc = "format_done"
    /\ exc # None
    /\ report_content = UnbalancedMarkup

\* C14: when an exception occurs at any point of extract_key_metrics, the
\* metrics returned are the default-initialised ones (0 competitors, no
\* key findings, 0 opportunities, threat level 'Medium').
C14_ExceptionLeavesDefaults ==
    pc = "metrics_done" /\ exc # None => metrics = DefaultMetrics

\* C15: when an exception occurs at any point of format_report_for_display,
\* the result is the fallback: overview is the raw report text and the
\* other three sections are empty.
C15_ExceptionGivesFallback ==
    pc = "format_done" /\ exc # None =>
        sections = [EmptySections EXCEPT !["overview"] = report_content]

(***************************************************************************)
(* Claims about the header rules of format_report_for_display              *)
(***************************************************************************)
\* C17: when at least one line is recognised as a section header, every
\* section value is empty or is the block from a header line to the line
\* before the next header, so no line before the first header is in any
\* section and no section holds the whole text with its preamble; when no
\* line is a header the whole text is in overview.
C17_PreambleDropped ==
    pc = "format_done" =>
        LET headers == HeaderIndices
            blocks == {Join(SubSeq(lines, h,
                                   Least({j \in headers \cup {Len(lines) + 1} : j > h}) - 1)) :
                           h \in headers}
        IN  IF headers = {}
            THEN sections = [EmptySections EXCEPT !["overview"] = report_content]
            ELSE /\ \A k \in SectionKeys : sections[k] = "" \/ sections[k] \in blocks
                 /\ Least(headers) > 1 =>
                        \A k \in SectionKeys : sections[k] # report_content

C17_Witness ==
    /\ pc = "format_done"
    /\ HeaderIndices # {}
    /\ Least(HeaderIndices) = 3
    /\ lines[1] = "strategic plan"
    /\ sections["recommendations"] = "## Strategic Recommendations\nstrategic plan"

\* the keyword rules in the order the claim gives them
KeywordRules ==
    << [section |-> "overview", keywords |-> {"executive summary", "key findings"}],
       [section |-> "detailed_analysis",
        keywords |-> {"detailed competitor analysis", "swot"}],
       [section |-> "competitor_matrix",
        keywords |-> {"comparison matrix", "competitive comparison"}],
       [section |-> "recommendations", keywords |-> {"recommendation"}] >>

\* the rules a line matches
MatchingRules(line) ==
    LET lower == Lower(line)
    IN  {r \in 1..Len(KeywordRules) :
            \E k \in KeywordRules[r].keywords : Contains(lower, k)}

\* the section of the first rule the line matches, or None
FirstMatchingRule(line) ==
    LET matching == MatchingRules(line)
    IN  IF matching = {} THEN None ELSE KeywordRules[Least(matching)].section

\* C18: the line just scanned opens the section of the first keyword rule
\* it matches, in the order overview, detailed_analysis, competitor_matrix,
\* recommendations, the last rule being "the line contains
\* 'recommendation'"; a line that matches no rule, one containing
\* 'strategic' without 'recommendation' included, opens nothing: it is
\* appended to the open block or dropped.
C18_FirstMatchingRuleDecides ==
    pc = "format_loop" /\ idx > 0 =>
        LET scanned == lines[idx]
            target == FirstMatchingRule(scanned)
        IN  IF target # None
            THEN current_section = target /\ current_content = <<scanned>>
            ELSE \/ current_section = None /\ current_content = <<>>
                 \/ /\ current_section # None
                    /\ Len(current_content) > 1
                    /\ current_content[Len(current_content)] = scanned

C18_Witness ==
    /\ pc = "format_loop"
    /\ idx = 2
    /\ lines[1] = "  swot analysis"
    /\ lines[2] = "strategic plan"
    /\ current_section = "detailed_analysis"
    /\ current_content = <<"  swot analysis", "strategic plan">>

(***************************************************************************)
(* The Streamlit application (src/app.py).  Every user event starts a      *)
(* script run, a call of main(); st.session_state lives across the runs.   *)
(* A script run that does not reach the pipeline is one step.  While the   *)
(* pipeline executes, the user can stop the run or touch a widget: the     *)
(* next Streamlit call of the run then raises a script-control exception,  *)
(* which is a BaseException and passes 'except Exception'.                 *)
(***************************************************************************)
\* the texts of the company-name input
CompanyInputs == {"", "Acme", "Globex & Sons"}

\* options of the industry select box (src/config.py, lines 26-42)
IndustryOptions == {"Technology / Software", "Other"}

\* values of the slider and of the depth select box
SliderValues == {3, 5}
DepthOptions == {"quick", "deep"}

\* what the user can set the sidebar widgets to
Forms ==
    [company_name : CompanyInputs, industry : IndustryOptions,
     num_competitors : SliderValues, analysis_depth : DepthOptions]

\* str(result) of crew.kickoff()
PipelineResults == {"", "# Report\nAcme leads.", TaskReport}

(***************************************************************************)
(* create_all_agents (src/agents.py), create_all_tasks (src/tasks.py) and  *)
(* the Crew: goals and descriptions are shortened to the placeholders      *)
(* their templates hold.                                                   *)
(***************************************************************************)
\* src/agents.py, lines 149-169
CreateAllAgents(company, ind) ==
    [k \in {"research", "analysis", "report"} |->
        CASE k = "research" ->
                 [role |-> "Competitor Research Specialist",
                  goal |-> "competitors in the " \o ind \o " industry; " \o company,
                  tools |-> 4]
          [] k = "analysis" ->
                 [role |-> "Market Analysis Expert",
                  goal |-> "landscape for " \o company \o " in the " \o ind \o " industry",
                  tools |-> 1]
          [] k = "report" ->
                 [role |-> "Business Intelligence Reporter",
                  goal |-> "report for " \o company,
                  tools |-> 0]]

\* create_research_task, src/tasks.py, lines 13-94
CreateResearchTask(agent, company, ind, n) ==
    [name |-> "research",
     description |-> "research " \o company \o " in " \o ind \o ": top " \o Digit(n),
     agent |-> agent,
     context |-> <<>>]

\* create_analysis_task, src/tasks.py, lines 97-191
CreateAnalysisTask(agent, company, ind, context_tasks) ==
    [name |-> "analysis",
     description |-> "analyze the landscape for " \o company,
     agent |-> agent,
     context |-> context_tasks]

\* create_report_task, src/tasks.py, lines 194-307
CreateReportTask(agent, company, ind, context_tasks) ==
    [name |-> "report",
     description |-> "report for " \o company \o "; Industry: " \o ind,
     agent |-> agent,
     context |-> context_tasks]

\* the task list with the analysis task in front
CreateAllTasksAnalysisFirst(agts, company, ind, n) ==
    << CreateAnalysisTask(agts["analysis"], company, ind, <<"research">>),
       CreateResearchTask(agts["research"], company, ind, n),
       CreateReportTask(agts["report"], company, ind, <<"research", "analysis">>) >>

\* create_all_tasks, src/tasks.py, lines 310-352; a context names its tasks
CreateAllTasks(agts, company, ind, n) ==
    << CreateResearchTask(agts["research"], company, ind, n),
       CreateAnalysisTask(agts["analysis"], company, ind, <<"research">>),
       CreateReportTask(agts["report"], company, ind, <<"research", "analysis">>) >>

\* src/app.py, lines 238-243: list(agents.values()) keeps the insertion order
CreateCrew(agts, tsks) ==
    [agents |-> <<agts["research"], agts["analysis"], agts["report"]>>,
     tasks |-> tsks,
     process |-> "sequential"]

AppInit ==
    /\ session_state = InitialSessionState
    /\ start_disabled = FALSE
    /\ run_args = NoArgs
    /\ config_valid \in BOOLEAN
    /\ form = InitialForm
    /\ clicked = "none"
    /\ PipelineIdle
    /\ pc = "app_idle"
    /\ report_content = ""
    /\ lines = <<>>
    /\ idx = 0
    /\ current_section = None
    /\ current_content = <<>>
    /\ sections = [k \in SectionKeys |-> ""]
    /\ metrics = DefaultMetrics
    /\ in_findings = FALSE
    /\ in_opportunities = FALSE
    /\ elements = <<>>
    /\ clean_arg = ""
    /\ text = ""
    /\ NoException
    /\ company_name = ""
    /\ PdfIdle
    /\ FilenameIdle

appFrame == <<report_content, lines, idx, formatVars, metricsVars, renderVars,
              pdfVars, filenameVars, config_valid>>

\* render_results shows the report (line 280)
ResultsShown ==
    /\ session_state.analysis_complete
    /\ session_state.report_content \notin {None, ""}

\* render_sidebar, lines 123-143: the arguments it returns, NoArgs for the
\* four None
SidebarResult(widgets, click) ==
    IF click = "start" /\ widgets.company_name # "" /\ widgets.industry # ""
    THEN widgets
    ELSE NoArgs

\* a dispatch that tests the arguments before analysis_complete
MainBranchArgsFirst(state, args) ==
    IF args.company_name # "" /\ args.industry # "" THEN "run"
    ELSE IF state.analysis_complete THEN "results"
    ELSE "welcome"

\* main, lines 406-415
MainBranch(state, args) ==
    IF state.analysis_complete THEN "results"
    ELSE IF args.company_name # "" /\ args.industry # "" THEN "run"
    ELSE "welcome"

\* the positions inside run_competitor_analysis
PipelinePositions == {"run_agents", "run_tasks", "run_crew", "run_kickoff"}
StorePositions == {"run_complete", "run_clear", "run_stored"}
RunPositions == {"run_entry"} \cup PipelinePositions \cup StorePositions

\* a script run without a button click, st.rerun() included: main() renders
\* the sidebar (when the configuration is valid) and the results or the
\* welcome screen
AppRerun ==
    /\ pc \in {"app_idle", "app_rerun"}
    /\ clicked' = "none"
    /\ exc' = None
    /\ start_disabled' = IF config_valid THEN session_state.analysis_running
                         ELSE start_disabled
    /\ pc' = "app_idle"
    /\ UNCHANGED <<appFrame, session_state, run_args, form, pipelineVars>>

\* the user changes a sidebar widget: a script run with the new values
AppEdit ==
    /\ pc = "app_idle"
    /\ config_valid
    /\ form' \in Forms \ {form}
    /\ clicked' = "none"
    /\ exc' = None
    /\ start_disabled' = session_state.analysis_running
    /\ pc' = "app_idle"
    /\ UNCHANGED <<appFrame, session_state, run_args, pipelineVars>>

\* a script run with Start Analysis clicked (lines 115-128, 406-415); the
\* button can be clicked when it was rendered enabled
AppStart ==
    /\ pc = "app_idle"
    /\ config_valid
    /\ ~start_disabled
    /\ clicked' = "start"
    /\ exc' = None
    /\ start_disabled' = session_state.analysis_running
    /\ IF MainBranch(session_state, SidebarResult(form, "start")) = "run"
       THEN /\ run_args' = SidebarResult(form, "start")
            /\ pc' = "run_entry"
       ELSE /\ run_args' = NoArgs
            /\ pc' = "app_idle"
    /\ UNCHANGED <<appFrame, session_state, form, pipelineVars>>

\* a script run with Start New Analysis clicked: line 389 with the report
\* cleared first
AppResetReportFirst ==
    /\ pc = "app_idle"
    /\ config_valid
    /\ ResultsShown
    /\ clicked' = "reset"
    /\ exc' = None
    /\ start_disabled' = session_state.analysis_running
    /\ session_state' = [session_state EXCEPT !.report_content = None]
    /\ pc' = "reset_report"
    /\ UNCHANGED <<appFrame, run_args, form, pipelineVars>>

\* a script run with Start New Analysis clicked: lines 387-389
AppReset ==
    /\ pc = "app_idle"
    /\ config_valid
    /\ ResultsShown
    /\ clicked' = "reset"
    /\ exc' = None
    /\ start_disabled' = session_state.analysis_running
    /\ session_state' = [session_state EXCEPT !.analysis_complete = FALSE]
    /\ pc' = "reset_report"
    /\ UNCHANGED <<appFrame, run_args, form, pipelineVars>>

\* lines 390-391: the report is cleared, st.rerun()
AppResetReport ==
    /\ pc = "reset_report"
    /\ session_state' = [session_state EXCEPT !.report_content = None]
    /\ pc' = "app_rerun"
    /\ UNCHANGED <<appFrame, exc, start_disabled, run_args, form, clicked, pipelineVars>>

\* lines 206-208
RunBegin ==
    /\ pc = "run_entry"
    /\ session_state' = [session_state EXCEPT !.analysis_running = TRUE,
                                              !.company_name = run_args.company_name,
                                              !.industry = run_args.industry]
    /\ at_entry' = [analysis_complete |-> session_state.analysis_complete,
                    report_content |-> session_state.report_content]
    /\ pc' = "run_agents"
    /\ UNCHANGED <<appFrame, exc, start_disabled, run_args, form, clicked,
                   agents, tasks, crew, executed>>

runFrame == <<appFrame, exc, session_state, start_disabled, run_args, form, clicked,
              at_entry>>

\* line 224: create_all_agents(company_name, industry)
BuildAgents(args) == CreateAllAgents(args.company_name, args.industry)

\* a call that asks for one more competitor in a deep analysis
BuildTasksByDepth(agts, args) ==
    CreateAllTasks(agts, args.company_name, args.industry,
                   IF args.analysis_depth = "deep" THEN args.num_competitors + 1
                   ELSE args.num_competitors)

\* line 231: create_all_tasks(agents, company_name, industry, num_competitors)
BuildTasks(agts, args) ==
    CreateAllTasks(agts, args.company_name, args.industry, args.num_competitors)

\* lines 211-225
RunCreateAgents ==
    /\ pc = "run_agents"
    /\ agents' = BuildAgents(run_args)
    /\ pc' = "run_tasks"
    /\ UNCHANGED <<runFrame, tasks, crew, executed>>

\* lines 228-232
RunCreateTasks ==
    /\ pc = "run_tasks"
    /\ tasks' = BuildTasks(agents, run_args)
    /\ pc' = "run_crew"
    /\ UNCHANGED <<runFrame, agents, crew, executed>>

\* lines 235-248
RunCreateCrew ==
    /\ pc = "run_crew"
    /\ crew' = CreateCrew(agents, tasks)
    /\ pc' = "run_kickoff"
    /\ UNCHANGED <<runFrame, agents, tasks, executed>>

\* line 252: the sequential process executes the next task of the list
RunTask ==
    /\ pc = "run_kickoff"
    /\ Len(executed) < Len(crew.tasks)
    /\ executed' = Append(executed, crew.tasks[Len(executed) + 1].name)
    /\ UNCHANGED <<runFrame, pc, agents, tasks, crew>>

\* lines 252-258: kickoff returns, the report is stored
RunStore ==
    /\ pc = "run_kickoff"
    /\ Len(executed) = Len(crew.tasks)
    /\ \E result \in PipelineResults :
           session_state' = [session_state EXCEPT !.report_content = result]
    /\ pc' = "run_complete"
    /\ UNCHANGED <<appFrame, exc, start_disabled, run_args, form, clicked, pipelineVars>>

\* line 259
RunComplete ==
    /\ pc = "run_complete"
    /\ session_state' = [session_state EXCEPT !.analysis_complete = TRUE]
    /\ pc' = "run_clear"
    /\ UNCHANGED <<appFrame, exc, start_disabled, run_args, form, clicked, pipelineVars>>

\* line 260
RunClear ==
    /\ pc = "run_clear"
    /\ session_state' = [session_state EXCEPT !.analysis_running = FALSE]
    /\ pc' = "run_stored"
    /\ UNCHANGED <<appFrame, exc, start_disabled, run_args, form, clicked, pipelineVars>>

\* the locals of run_competitor_analysis are gone
RunLocalsDropped ==
    /\ run_args' = NoArgs
    /\ agents' = NoAgents
    /\ tasks' = <<>>
    /\ crew' = NoCrew
    /\ executed' = <<>>
    /\ at_entry' = NoResults

\* lines 262-269: st.rerun() ends the script run and starts the next one
RunRerun ==
    /\ pc = "run_stored"
    /\ RunLocalsDropped
    /\ pc' = "app_rerun"
    /\ UNCHANGED <<appFrame, exc, session_state, start_disabled, form, clicked>>

\* a handler that leaves the busy flag alone
RunFailKeepFlag ==
    /\ pc \in PipelinePositions
    /\ exc' = "Exception"
    /\ RunLocalsDropped
    /\ pc' = "app_idle"
    /\ UNCHANGED <<appFrame, session_state, start_disabled, form, clicked>>

\* lines 271-275: a statement of lines 224-252 raises an Exception
RunFail ==
    /\ pc \in PipelinePositions
    /\ exc' = "Exception"
    /\ session_state' = [session_state EXCEPT !.analysis_running = FALSE]
    /\ RunLocalsDropped
    /\ pc' = "app_idle"
    /\ UNCHANGED <<appFrame, start_disabled, form, clicked>>

\* the script run is stopped while the pipeline executes: the
\* script-control exception raised by the next Streamlit call (lines
\* 211-255) is not an Exception, no handler runs
RunStopped ==
    /\ pc \in PipelinePositions
    /\ RunLocalsDropped
    /\ pc' = "app_idle"
    /\ UNCHANGED <<appFrame, exc, session_state, start_disabled, form, clicked>>

AppNext ==
    \/ AppRerun
    \/ AppEdit
    \/ AppStart
    \/ AppReset
    \/ AppResetReport
    \/ RunBegin
    \/ RunCreateAgents
    \/ RunCreateTasks
    \/ RunCreateCrew
    \/ RunTask
    \/ RunStore
    \/ RunComplete
    \/ RunClear
    \/ RunRerun
    \/ RunFail
    \/ RunStopped

SpecApp == AppInit /\ [][AppNext]_vars

(***************************************************************************)
(* Claims about the session state                                          *)
(***************************************************************************)
\* C20: analysis_running is True only while a pipeline run is executing:
\* however run_competitor_analysis ends (completion, a pipeline error, the
\* script run being stopped), the flag is False afterwards, so no script
\* run renders the Start Analysis button disabled once the run is over.
C20_BusyOnlyWhileRunning ==
    /\ session_state.analysis_running => pc \in RunPositions
    /\ pc \in {"app_idle", "app_rerun"} => ~start_disabled

\* C21: within one session run_competitor_analysis is never entered while
\* analysis_running is True, under any interleaving of user clicks and
\* script reruns.
C21_NeverEnteredWhileBusy ==
    pc = "run_entry" => ~session_state.analysis_running

(***************************************************************************)
(* Claims about the shape of the results                                   *)
(***************************************************************************)
\* C22: the map of format_report_for_display has exactly the four keys
\* overview, detailed_analysis, competitor_matrix, recommendations, from
\* its creation to its return, for every input and on every path (normal,
\* fallback, exception): no assignment adds a key and none is removed.
C22_ExactlyFourKeys ==
    DOMAIN sections = SectionKeys

\* the exception path, taken after a section was stored
C22_Witness ==
    /\ pc = "format_done"
    /\ exc = "Exception"
    /\ sections["detailed_analysis"] # ""
    /\ sections["overview"] = report_content

\* C23: for every report text, the threat_level returned by
\* extract_key_metrics is the default label 'Medium': no statement of the
\* function assigns it after the metrics are created.
C23_ThreatLevelIsMedium ==
    metrics["threat_level"] = "Medium"

\* a report that names two competitors and a high threat level was read
C23_Witness ==
    /\ pc = "metrics_done"
    /\ report_content = ThreatReport
    /\ metrics["num_competitors"] = 2

(***************************************************************************)
(* Claims about the pipeline                                               *)
(***************************************************************************)
\* the task of the crew with a given name
TaskNamed(name) ==
    CHOOSE t \in {crew.tasks[i] : i \in 1..Len(crew.tasks)} : t.name = name

\* the names a sequence of names holds before position k
NamesBefore(names, k) == {names[j] : j \in 1..(k - 1)}

\* C24: create_all_tasks returns the three tasks in the order research,
\* analysis, report; the context of every task holds only tasks that
\* precede it in the list (analysis: research; report: research and
\* analysis); and the sequential execution of the crew runs no task before
\* a task of its context.
C24_ContextPrecedes ==
    /\ tasks # <<>> =>
           /\ [i \in 1..Len(tasks) |-> tasks[i].name] = <<"research", "analysis", "report">>
           /\ tasks[1].context = <<>>
           /\ tasks[2].context = <<"research">>
           /\ tasks[3].context = <<"research", "analysis">>
    /\ \A k \in 1..Len(executed) :
           \A i \in 1..Len(TaskNamed(executed[k]).context) :
               TaskNamed(executed[k]).context[i] \in NamesBefore(executed, k)

\* the crew has executed its three tasks
C24_Witness ==
    /\ pc = "run_kickoff"
    /\ executed = <<"research", "analysis", "report">>

(***************************************************************************)
(* Claims about the script runs                                            *)
(***************************************************************************)
\* C25: from every reachable session state the user can eventually start
\* a new analysis: between two script runs of a configured session, when
\* analysis_complete is True the results view with its Start New Analysis
\* control is rendered, and otherwise the Start Analysis button can be
\* used.
C25_CanStartAgain ==
    pc = "app_idle" /\ config_valid =>
        IF session_state.analysis_complete THEN ResultsShown ELSE ~start_disabled

\* C26: in every reachable session state, the states between the
\* assignments of run_competitor_analysis and of the Start New Analysis
\* reset included, analysis_complete = True implies that report_content is
\* not None.
C26_CompleteHasReport ==
    session_state.analysis_complete => session_state.report_content # None

\* inside the reset: analysis_complete is cleared, the report still stored
C26_Witness ==
    /\ pc = "reset_report"
    /\ ~session_state.analysis_complete
    /\ session_state.report_content = TaskReport

\* C27: when the agent pipeline raises an exception during
\* run_competitor_analysis, the exception is not propagated (the call
\* returns to main), and afterwards analysis_complete and report_content
\* have the values they had when the run was entered and analysis_running
\* is False.
C27_FailureKeepsResults ==
    [][(pc \in PipelinePositions /\ exc' = "Exception") =>
           (/\ pc' = "app_idle"
            /\ session_state'.analysis_complete = at_entry.analysis_complete
            /\ session_state'.report_content = at_entry.report_content
            /\ ~session_state'.analysis_running)]_vars

\* a run for Acme failed while the crew was executing its tasks
C27_Witness ==
    /\ pc = "app_idle"
    /\ exc = "Exception"
    /\ session_state.company_name = "Acme"
    /\ ~session_state.analysis_running
    /\ ~session_state.analysis_complete

\* C28: run_competitor_analysis is entered only in a script run in which
\* the configuration is valid, analysis_complete is False, the Start
\* Analysis button was clicked and both company name and industry are
\* non-empty: a click with an empty company name, or a click while results
\* are shown, starts no run.  The arguments of the run are the values of
\* the widgets.
C28_RunOnlyOnValidStart ==
    /\ pc \in RunPositions =>
           /\ config_valid
           /\ clicked = "start"
           /\ run_args = form
           /\ run_args.company_name # ""
           /\ run_args.industry # ""
    /\ pc = "run_entry" => ~session_state.analysis_complete

\* a run is entered for the company of the text input
C28_Witness ==
    /\ pc = "run_entry"
    /\ clicked = "start"
    /\ run_args.company_name = "Globex & Sons"
    /\ run_args.num_competitors = 5

\* the arguments of the running call with another analysis depth
WithDepth(d) == [run_args EXCEPT !.analysis_depth = d]

PrefixRules == {"h1", "h2", "h3", "bullet", "numbered", "rule"}

\* the tests with a bullet test that accepts every line starting with a
\* hyphen or an asterisk
PrefixTestLooseBullet(rule, l) ==
    CASE rule = "h1" -> StartsWith(l, "# ")
      [] rule = "h2" -> StartsWith(l, "## ")
      [] rule = "h3" -> StartsWith(l, "### ")
      [] rule = "bullet" -> StartsWith(l, "-") \/ StartsWith(l, "*")
      [] rule = "numbered" -> StartsWith(l, "1. ") \/ StartsWith(l, "2. ") \/ StartsWith(l, "3. ")
      [] rule = "rule" -> StartsWith(l, "---")

\* the conditions of lines 198, 204, 211, 217, 223 and 230
PrefixTest(rule, l) ==
    CASE rule = "h1" -> StartsWith(l, "# ")
      [] rule = "h2" -> StartsWith(l, "## ")
      [] rule = "h3" -> StartsWith(l, "### ")
      [] rule = "bullet" -> StartsWith(l, "- ") \/ StartsWith(l, "* ")
      [] rule = "numbered" -> StartsWith(l, "1. ") \/ StartsWith(l, "2. ") \/ StartsWith(l, "3. ")
      [] rule = "rule" -> StartsWith(l, "---")

\* the bodies of the branches, lines 199-232
BlocksOfRule(rule, l) ==
    CASE rule = "h1" -> <<Paragraph(Strip(DropFirst(l, 2)), "CustomTitle"), Spacer(20)>>
      [] rule = "h2" ->
             <<Spacer(15), Paragraph(Strip(DropFirst(l, 3)), "CustomHeading2"), Spacer(10)>>
      [] rule = "h3" -> <<Paragraph(Strip(DropFirst(l, 4)), "CustomHeading3"), Spacer(5)>>
      [] rule = "bullet" ->
             <<Paragraph(BulletGlyph \o " " \o Strip(DropFirst(l, 2)), "CustomBullet")>>
      [] rule = "numbered" ->
             <<Paragraph(Char(l, 1) \o ". " \o Strip(DropFirst(l, 3)), "CustomBullet")>>
      [] rule = "rule" -> <<Spacer(10)>>

\* the rules whose test a line passes
RulesMatching(l) == {rule \in PrefixRules : PrefixTest(rule, l)}

\* the trimmed line the loop has just handled
HandledLine == Strip(lines[idx])

\* C30: the prefix rules of the renderer are mutually exclusive: every
\* trimmed non-empty line passes at most one of the tests '# ', '## ',
\* '### ', '- ' or '* ', '1. '/'2. '/'3. ', '---', so the blocks produced
\* for a line are those of the one rule it passes, in whichever order the
\* rules are tested, and those of a body paragraph when it passes none.
C30_RulesExclusive ==
    pc \in {"parse_loop", "parse_done"} /\ idx > 0 /\ HandledLine # "" =>
        /\ Cardinality(RulesMatching(HandledLine)) <= 1
        /\ \A rule \in RulesMatching(HandledLine) :
               BlocksOfLine(HandledLine) = BlocksOfRule(rule, HandledLine)
        /\ RulesMatching(HandledLine) = {} =>
               BlocksOfLine(HandledLine) = <<Paragraph(CleanMarkdown(HandledLine), "CustomBody")>>

\* a horizontal rule was rendered after a bullet
C30_Witness ==
    /\ pc = "parse_done"
    /\ lines = <<"- **strong** brand", "* item", "---">>
    /\ elements[Len(elements)] = Spacer(10)
====
